---- MODULE Spec2Model ----
(***************************************************************************)
(* The contextual transliteration engine of tools/katottg.py: _make_trs,   *)
(* _compile, the compiled regular expression rx, its callback sb, and the  *)
(* three transliterators uk_lat_dstua, uk_lat_dstub, uk_lat_kmu.           *)
(*                                                                         *)
(* A character is its Unicode code point; a Python str is a sequence of    *)
(* code points.                                                            *)
(***************************************************************************)
EXTENDS Integers, Sequences, FiniteSets, TLC

VARIABLES
  rules,    \* the rule table handed to _compile (named by a record, see Table)
  pc,       \* "compile", "ready", "failed", "scan", "done", "raised"
  text,     \* the argument of worker(text)
  pos,      \* rx.sub's scan position in text (1-based)
  out,      \* the replacement text rx.sub has assembled so far
  pieces    \* per scanned input character: the group that consumed it and its share of out

vars == <<rules, pc, text, pos, out, pieces>>

\* Longest input drawn for a call of a transliterator.
MaxLen == 3

Range(s) == {s[i] : i \in DOMAIN s}

(***************************************************************************)
(* str.upper, str.lower, str.title of Python, on the characters the rule   *)
(* tables and the inputs use.                                              *)
(***************************************************************************)

\* a..z; Cyrillic а..я; є і ї; ґ; ï; ğ ž č š ŝ ĵ
IsLower(c) ==
  \/ c \in 97..122
  \/ c \in 1072..1103
  \/ c \in {1108, 1110, 1111}
  \/ c = 1169
  \/ c = 239
  \/ c \in {287, 382, 269, 353, 349, 309}

IsUpper(c) ==
  \/ c \in 65..90
  \/ c \in 1040..1071
  \/ c \in {1028, 1030, 1031}
  \/ c = 1168
  \/ c = 207
  \/ c \in {286, 381, 268, 352, 348, 308}

IsCased(c) == IsLower(c) \/ IsUpper(c)

Upper(c) ==
  IF c \in 97..122 \/ c \in 1072..1103 \/ c = 239 THEN c - 32
  ELSE IF c \in {1108, 1110, 1111} THEN c - 80
  ELSE IF c = 1169 \/ c \in {287, 382, 269, 353, 349, 309} THEN c - 1
  ELSE c

Lower(c) ==
  IF c \in 65..90 \/ c \in 1040..1071 \/ c = 207 THEN c + 32
  ELSE IF c \in {1028, 1030, 1031} THEN c + 80
  ELSE IF c = 1168 \/ c \in {286, 381, 268, 352, 348, 308} THEN c + 1
  ELSE c

upper(s) == [i \in 1..Len(s) |-> Upper(s[i])]

lower(s) == [i \in 1..Len(s) |-> Lower(s[i])]

\* str.capitalize in place of str.title: only the first character is
\* upper-cased.
title_capitalize(s) == [i \in 1..Len(s) |-> IF i = 1 THEN Upper(s[i]) ELSE Lower(s[i])]

\* str.upper in place of str.title.
title_upper(s) == [i \in 1..Len(s) |-> Upper(s[i])]

\* str.title: a character after a cased character is lower-cased, every
\* other character is upper-cased (title case = upper case on these characters).
title(s) ==
  [i \in 1..Len(s) |-> IF i > 1 /\ IsCased(s[i-1]) THEN Lower(s[i]) ELSE Upper(s[i])]

\* silly(s) = s.lower()[:-1] + s.lower()[-1].upper(); raises IndexError on ''
\* (see SillyRaises).
silly(s) == [i \in 1..Len(s) |-> IF i = Len(s) THEN Upper(Lower(s[i])) ELSE Lower(s[i])]

SillyRaises(s) == Len(s) = 0

(***************************************************************************)
(* The character classes of _compile.                                      *)
(***************************************************************************)

\* 'абвгґдеєжзиіїйклмнопрстуфхцчшщьюя'
loabc ==
  <<1072, 1073, 1074, 1075, 1169, 1076, 1077, 1108, 1078, 1079, 1080, 1110,
    1111, 1081, 1082, 1083, 1084, 1085, 1086, 1087, 1088, 1089, 1090, 1091,
    1092, 1093, 1094, 1095, 1096, 1097, 1100, 1102, 1103>>

hiabc == upper(loabc)

\* 'бвгґджзйклмнпрстфхцчшщ'
consonants ==
  <<1073, 1074, 1075, 1169, 1076, 1078, 1079, 1081, 1082, 1083, 1084, 1085,
    1087, 1088, 1089, 1090, 1092, 1093, 1094, 1095, 1096, 1097>>

\* A consonant class that leaves out й, itself an after-consonant key.
consonants_keyset_no_j == (Range(consonants) \cup Range(upper(consonants))) \ {1081, 1049}

consonants_keyset == Range(consonants) \cup Range(upper(consonants))

\* An apostrophe class that forgets U+02BC.
apos_two == <<39, 8217>>

\* "'’ʼ"
apos == <<39, 8217, 700>>

\* '￼￼', the pattern text that stands in for an empty key set
sentinel == <<65532, 65532>>

(***************************************************************************)
(* Rule tables (_make_trs).  A table is the dict in insertion order: a     *)
(* sequence of entries.  A rule is a str (Str) or a dict (Dict) whose keys *)
(* are the members of has.                                                 *)
(***************************************************************************)

Str(k, v) ==
  [key |-> k, isdict |-> FALSE, has |-> {}, val |-> v,
   start |-> <<>>, cons |-> <<>>, other |-> <<>>]

Dict(k, h, s, c, o) ==
  [key |-> k, isdict |-> TRUE, has |-> h, val |-> <<>>,
   start |-> s, cons |-> c, other |-> o]

\* d[key] = rule on an insertion-ordered dict
SetItem(d, e) ==
  IF \E i \in 1..Len(d) : d[i].key = e.key
  THEN [i \in 1..Len(d) |-> IF d[i].key = e.key THEN e ELSE d[i]]
  ELSE Append(d, e)

RECURSIVE Assign(_, _)
Assign(d, es) ==
  IF es = <<>> THEN d ELSE Assign(SetItem(d, Head(es)), Tail(es))

\* dict(zip("'абвгґдеєжзиіїйклмнопрстуфхцчшщьюя", "'abvggdeezzyiijklmnoprstufxccssjua"))
base_keys ==
  <<39, 1072, 1073, 1074, 1075, 1169, 1076, 1077, 1108, 1078, 1079, 1080,
    1110, 1111, 1081, 1082, 1083, 1084, 1085, 1086, 1087, 1088, 1089, 1090,
    1091, 1092, 1093, 1094, 1095, 1096, 1097, 1100, 1102, 1103>>

base_values ==
  <<39, 97, 98, 118, 103, 103, 100, 101, 101, 122, 122, 121, 105, 105, 106,
    107, 108, 109, 110, 111, 112, 114, 115, 116, 117, 102, 120, 99, 99, 115,
    115, 106, 117, 97>>

base == [i \in 1..Len(base_keys) |-> Str(<<base_keys[i]>>, <<base_values[i]>>)]

dstua ==
  Assign(base, <<
    Str(<<1075>>, <<287>>),   \* dstua['г'] = 'ğ'
    Str(<<1108>>, <<106, 101>>),   \* dstua['є'] = 'je'
    Str(<<1078>>, <<382>>),   \* dstua['ж'] = 'ž'
    Str(<<1111>>, <<239>>),   \* dstua['ї'] = 'ï'
    Dict(<<1081>>, {"cons", "other"}, <<>>, <<39, 106>>, <<106>>),   \* dstua['й'] = dict(cons="'j", other='j')
    Str(<<1081, 1072>>, <<106, 39, 97>>),   \* dstua['йа'] = "j'a"
    Str(<<1081, 1077>>, <<106, 39, 101>>),   \* dstua['йе'] = "j'e"
    Str(<<1081, 1091>>, <<106, 39, 117>>),   \* dstua['йу'] = "j'u"
    Str(<<1095>>, <<269>>),   \* dstua['ч'] = 'č'
    Str(<<1096>>, <<353>>),   \* dstua['ш'] = 'š'
    Str(<<1097>>, <<349>>),   \* dstua['щ'] = 'ŝ'
    Dict(<<1100>>, {"cons", "other"}, <<>>, <<106>>, <<309>>),   \* dstua['ь'] = dict(cons='j', other='ĵ')
    Str(<<1100, 1072>>, <<106, 39, 97>>),   \* dstua['ьа'] = "j'a"
    Str(<<1100, 1077>>, <<106, 39, 101>>),   \* dstua['ье'] = "j'e"
    Str(<<1100, 1091>>, <<106, 39, 117>>),   \* dstua['ьу'] = "j'u"
    Str(<<1102>>, <<106, 117>>),   \* dstua['ю'] = 'ju'
    Str(<<1103>>, <<106, 97>>)   \* dstua['я'] = 'ja'
  >>)

dstub ==
  Assign(base, <<
    Str(<<1075>>, <<103, 104>>),   \* dstub['г'] = 'gh'
    Str(<<1108>>, <<106, 101>>),   \* dstub['є'] = 'je'
    Str(<<1078>>, <<122, 104>>),   \* dstub['ж'] = 'zh'
    Str(<<1111>>, <<106, 105>>),   \* dstub['ї'] = 'ji'
    Dict(<<1081>>, {"cons", "other"}, <<>>, <<39, 106>>, <<106>>),   \* dstub['й'] = dict(cons="'j", other='j')
    Str(<<1081, 1072>>, <<106, 39, 97>>),   \* dstub['йа'] = "j'a"
    Str(<<1081, 1077>>, <<106, 39, 101>>),   \* dstub['йе'] = "j'e"
    Str(<<1081, 1110>>, <<106, 39, 105>>),   \* dstub['йі'] = "j'i"
    Str(<<1081, 1091>>, <<106, 39, 117>>),   \* dstub['йу'] = "j'u"
    Str(<<1093>>, <<107, 104>>),   \* dstub['х'] = 'kh'
    Str(<<1095>>, <<99, 104>>),   \* dstub['ч'] = 'ch'
    Str(<<1096>>, <<115, 104>>),   \* dstub['ш'] = 'sh'
    Str(<<1096, 1095>>, <<115, 104, 39, 99, 104>>),   \* dstub['шч'] = "sh'ch"
    Str(<<1097>>, <<115, 104, 99, 104>>),   \* dstub['щ'] = 'shch'
    Dict(<<1100>>, {"cons", "other"}, <<>>, <<106>>, <<104, 106>>),   \* dstub['ь'] = dict(cons='j', other='hj')
    Str(<<1100, 1072>>, <<106, 39, 97>>),   \* dstub['ьа'] = "j'a"
    Str(<<1100, 1077>>, <<106, 39, 101>>),   \* dstub['ье'] = "j'e"
    Str(<<1100, 1110>>, <<106, 39, 105>>),   \* dstub['ьі'] = "j'i"
    Str(<<1100, 1091>>, <<106, 39, 117>>),   \* dstub['ьу'] = "j'u"
    Str(<<1102>>, <<106, 117>>),   \* dstub['ю'] = 'ju'
    Str(<<1103>>, <<106, 97>>)   \* dstub['я'] = 'ja'
  >>)

kmu ==
  Assign(base, <<
    Str(<<39>>, <<>>),   \* kmu["'"] = ''
    Str(<<1075>>, <<104>>),   \* kmu['г'] = 'h'
    Dict(<<1108>>, {"start", "other"}, <<121, 101>>, <<>>, <<105, 101>>),   \* kmu['є'] = dict(start='ye', other='ie')
    Str(<<1078>>, <<122, 104>>),   \* kmu['ж'] = 'zh'
    Str(<<1079, 1075>>, <<122, 103, 104>>),   \* kmu['зг'] = 'zgh'
    Dict(<<1111>>, {"start", "other"}, <<121, 105>>, <<>>, <<105>>),   \* kmu['ї'] = dict(start='yi', other='i')
    Dict(<<1081>>, {"start", "other"}, <<121>>, <<>>, <<105>>),   \* kmu['й'] = dict(start='y', other='i')
    Str(<<1093>>, <<107, 104>>),   \* kmu['х'] = 'kh'
    Str(<<1094>>, <<116, 115>>),   \* kmu['ц'] = 'ts'
    Str(<<1095>>, <<99, 104>>),   \* kmu['ч'] = 'ch'
    Str(<<1096>>, <<115, 104>>),   \* kmu['ш'] = 'sh'
    Str(<<1097>>, <<115, 104, 99, 104>>),   \* kmu['щ'] = 'shch'
    Str(<<1100>>, <<>>),   \* kmu['ь'] = ''
    Dict(<<1102>>, {"start", "other"}, <<121, 117>>, <<>>, <<105, 117>>),   \* kmu['ю'] = dict(start='yu', other='iu')
    Dict(<<1103>>, {"start", "other"}, <<121, 97>>, <<>>, <<105, 97>>)   \* kmu['я'] = dict(start='ya', other='ia')
  >>)


(***************************************************************************)
(* _compile: the loop over rules.items() that fills default_rules,         *)
(* word_start_rules and after_cons_rules.  A dict is a function from keys  *)
(* (strings) to output strings.                                            *)
(***************************************************************************)

Put(d, k, v) == [x \in (DOMAIN d) \cup {k} |-> IF x = k THEN v ELSE d[x]]

\* A registration that forgets the upper-case key.
PutLoHi_lo_only(d, key, value) == Put(d, lower(key), value)

\* d[lokey] = value; d[hikey] = value.title()
PutLoHi(d, key, value) ==
  Put(Put(d, lower(key), value), upper(lower(key)), title(value))

\* ... and, if len(key) > 1: d[key.title()] = value.title();
\* d[silly(key)] = silly(value)
PutCases(d, key, value) ==
  IF Len(key) > 1
  THEN Put(Put(PutLoHi(d, key, value), title(key), title(value)), silly(key), silly(value))
  ELSE PutLoHi(d, key, value)

\* key.replace("'", c)
ReplaceApos(key, c) == [i \in 1..Len(key) |-> IF key[i] = 39 THEN c ELSE key[i]]

\* for c in apos: default_rules[key.replace("'", c)] = rule
RECURSIVE PutAliases(_, _, _, _)
PutAliases(d, key, rule, cs) ==
  IF cs = <<>> THEN d
  ELSE PutAliases(Put(d, ReplaceApos(key, Head(cs)), rule), key, rule, Tail(cs))

\* rule.get('other', '')
GetOther(e) == IF "other" \in e.has THEN e.other ELSE <<>>

\* One iteration of "for key, rule in rules.items()".
CompileEntry(acc, e) ==
  IF e.isdict
  THEN [default_rules |-> PutCases(acc.default_rules, e.key, GetOther(e)),
        word_start_rules |->
          IF "start" \in e.has
          THEN PutCases(acc.word_start_rules, e.key, e.start)
          ELSE acc.word_start_rules,
        after_cons_rules |->
          IF "cons" \in e.has
          THEN PutLoHi(acc.after_cons_rules, e.key, e.cons)
          ELSE acc.after_cons_rules]
  ELSE [acc EXCEPT !.default_rules =
          IF 39 \in Range(e.key)
          THEN PutAliases(acc.default_rules, e.key, e.val, apos)
          ELSE PutCases(acc.default_rules, e.key, e.val)]

RECURSIVE CompileLoop(_, _)
CompileLoop(acc, es) ==
  IF es = <<>> THEN acc ELSE CompileLoop(CompileEntry(acc, Head(es)), Tail(es))

\* silly('') raises IndexError inside the loop
EntryRaises(e) ==
  /\ Len(e.key) > 1
  /\ IF e.isdict
     THEN \/ "start" \in e.has /\ SillyRaises(e.start)
          \/ SillyRaises(GetOther(e))
     ELSE 39 \notin Range(e.key) /\ SillyRaises(e.val)

\* assert all(len(k) == 1 for k in word_start_keyset), and the same for
\* after_cons_keyset
AssertsFail(acc) ==
  \/ \E k \in DOMAIN acc.word_start_rules : Len(k) # 1
  \/ \E k \in DOMAIN acc.after_cons_rules : Len(k) # 1

NoDicts == [default_rules |-> <<>>, word_start_rules |-> <<>>, after_cons_rules |-> <<>>]

\* _compile(rules) does not return: an exception leaves the loop or an
\* assertion fails.
CompileRaises(t) ==
  \/ \E i \in 1..Len(t) : EntryRaises(t[i])
  \/ AssertsFail(CompileLoop(NoDicts, t))

\* The closure _compile returns: the three dicts and the key sets that rx
\* and sb read (ok is FALSE when _compile raises).
_compile(t) ==
  IF CompileRaises(t)
  THEN [ok |-> FALSE, default_rules |-> <<>>, word_start_rules |-> <<>>,
        after_cons_rules |-> <<>>, default_keyset1 |-> {}, default_keyset2 |-> {},
        word_start_keyset |-> {}, after_cons_keyset |-> {}]
  ELSE LET acc == CompileLoop(NoDicts, t)
       IN [ok |-> TRUE, default_rules |-> acc.default_rules,
           word_start_rules |-> acc.word_start_rules,
           after_cons_rules |-> acc.after_cons_rules,
           default_keyset1 |-> {k \in DOMAIN acc.default_rules : Len(k) = 1},
           default_keyset2 |-> {k \in DOMAIN acc.default_rules : Len(k) > 1},
           word_start_keyset |-> DOMAIN acc.word_start_rules,
           after_cons_keyset |-> DOMAIN acc.after_cons_rules]

(***************************************************************************)
(* The tables _compile is applied to.  The program compiles dstua, dstub   *)
(* and kmu; Probes are further tables: base with one contextual rule for   *)
(* one key, carrying any subset of start, cons and other.                  *)
(***************************************************************************)

Standards ==
  {[name |-> n, key |-> <<>>, has |-> {}] : n \in {"dstua", "dstub", "kmu"}}

\* й ь є ї ю я йа
ProbeKeys == {<<1081>>, <<1100>>, <<1108>>, <<1111>>, <<1102>>, <<1103>>, <<1081, 1072>>}

Probes ==
  {[name |-> "probe", key |-> k, has |-> h] :
     k \in ProbeKeys, h \in SUBSET {"start", "cons", "other"}}

\* start='y', cons="'j", other='i'
ProbeTable(r) == Assign(base, <<Dict(r.key, r.has, <<121>>, <<39, 106>>, <<105>>)>>)

Table(r) ==
  CASE r.name = "dstua" -> dstua
    [] r.name = "dstub" -> dstub
    [] r.name = "kmu" -> kmu
    [] OTHER -> ProbeTable(r)

\* uk_lat_dstua, uk_lat_dstub, uk_lat_kmu = _make_trs()
uk_lat == [r \in Standards \cup Probes |-> _compile(Table(r))]

(***************************************************************************)
(* The pattern rx, alternative by alternative, matched at one position of  *)
(* the text.  A key set that is empty is replaced in the pattern by the    *)
(* two-character text sentinel.                                            *)
(***************************************************************************)

StartsWith(t, p, k) ==
  /\ p + Len(k) - 1 <= Len(t)
  /\ \A i \in 1..Len(k) : t[p + i - 1] = k[i]

\* The characters inner1 excludes: {loabc}{hiabc}{apos}
letters_apos == Range(loabc) \cup Range(hiabc) \cup Range(apos)

\* inner1 = [^{loabc}{hiabc}{apos}]
inner1(ch) == ch \notin letters_apos

\* Length of the text inner2 matches at q (0: no match).
inner2(c, t, q) ==
  IF c.word_start_keyset # {}
  THEN IF q <= Len(t) /\ <<t[q]>> \in c.word_start_keyset THEN 1 ELSE 0
  ELSE IF StartsWith(t, q, sentinel) THEN Len(sentinel) ELSE 0

\* inner3: the keys of default_keyset2, longest first.
inner3(c, t, q) ==
  IF c.default_keyset2 # {}
  THEN LET ms == {k \in c.default_keyset2 : StartsWith(t, q, k)}
       IN IF ms = {} THEN 0
          ELSE Len(CHOOSE k \in ms : \A j \in ms : Len(j) <= Len(k))
  ELSE IF StartsWith(t, q, sentinel) THEN Len(sentinel) ELSE 0

\* inner4: a consonant, then an after-consonant key.
inner4(c, t, q) ==
  IF q <= Len(t) /\ t[q] \in consonants_keyset
  THEN IF c.after_cons_keyset # {}
       THEN IF q + 1 <= Len(t) /\ <<t[q + 1]>> \in c.after_cons_keyset
            THEN 2 ELSE 0
       ELSE IF StartsWith(t, q + 1, sentinel) THEN 1 + Len(sentinel) ELSE 0
  ELSE 0

\* inner5 = [{default_keyset1}]
inner5(c, t, q) ==
  IF q <= Len(t) /\ <<t[q]>> \in c.default_keyset1 THEN 1 ELSE 0

NoMatch == [grp |-> "none", g1 |-> <<>>, k |-> <<>>]

\* A word-start alternative that tests only '^', not the preceding character.
alt_start_caret_only(c, t, p) ==
  IF p = 1 /\ inner2(c, t, 1) > 0
  THEN [grp |-> "g2", g1 |-> <<>>, k |-> SubSeq(t, 1, inner2(c, t, 1))]
  ELSE NoMatch

\* (?P<g1>^|{inner1})(?P<g2>{inner2}) at p
alt_start(c, t, p) ==
  IF p = 1 /\ inner2(c, t, 1) > 0
  THEN [grp |-> "g2", g1 |-> <<>>, k |-> SubSeq(t, 1, inner2(c, t, 1))]
  ELSE IF inner1(t[p]) /\ inner2(c, t, p + 1) > 0
  THEN [grp |-> "g2", g1 |-> <<t[p]>>, k |-> SubSeq(t, p + 1, p + inner2(c, t, p + 1))]
  ELSE NoMatch

\* The match of rx that begins at p (1 <= p <= Len(t)): the alternatives in
\* the order of the pattern.
rx_match(c, t, p) ==
  LET a == alt_start(c, t, p)
      n3 == inner3(c, t, p)
      n4 == inner4(c, t, p)
  IN IF a.grp # "none" THEN a
     ELSE IF n3 > 0 THEN [grp |-> "g3", g1 |-> <<>>, k |-> SubSeq(t, p, p + n3 - 1)]
     ELSE IF n4 > 0 THEN [grp |-> "g4", g1 |-> <<>>, k |-> SubSeq(t, p, p + n4 - 1)]
     ELSE IF inner5(c, t, p) > 0 THEN [grp |-> "g5", g1 |-> <<>>, k |-> <<t[p]>>]
     ELSE NoMatch

MatchLen(m) == Len(m.g1) + Len(m.k)

Piece(g, s) == [grp |-> g, out |-> s]

KeyError == [ok |-> FALSE, out |-> <<>>, parts |-> <<>>]

\* The callback sb(m): the replacement for one match, or a KeyError.  parts
\* gives, for each character of the match, its group and its share of the
\* replacement.
sb(c, m) ==
  CASE m.grp = "g5" ->
         [ok |-> TRUE, out |-> c.default_rules[m.k],
          parts |-> <<Piece("g5", c.default_rules[m.k])>>]
    [] m.grp = "g3" ->
         IF m.k \in DOMAIN c.default_rules
         THEN [ok |-> TRUE, out |-> c.default_rules[m.k],
               parts |-> [i \in 1..Len(m.k) |->
                            Piece("g3", IF i = 1 THEN c.default_rules[m.k] ELSE <<>>)]]
         ELSE KeyError
    [] m.grp = "g4" ->
         IF <<m.k[1]>> \in DOMAIN c.default_rules /\ <<m.k[2]>> \in DOMAIN c.after_cons_rules
         THEN LET x == c.default_rules[<<m.k[1]>>]
                  v == c.after_cons_rules[<<m.k[2]>>]
              IN [ok |-> TRUE, out |-> x \o v,
                  parts |-> [i \in 1..Len(m.k) |->
                               IF i = 1 THEN Piece("g4x", x)
                               ELSE IF i = 2 THEN Piece("g4v", v)
                               ELSE Piece("g4v", <<>>)]]
         ELSE KeyError
    [] m.grp = "g2" ->
         IF m.k \in DOMAIN c.word_start_rules
         THEN LET x == m.g1
                  v == c.word_start_rules[m.k]
              IN [ok |-> TRUE, out |-> x \o v,
                  parts |-> [i \in 1..Len(x) |-> Piece("g1", x)] \o <<Piece("g2", v)>>]
         ELSE KeyError

\* rx.sub(sb, text) from position p on: [ok, out]; ok is FALSE when sb raises.
RECURSIVE sub_from(_, _, _)
sub_from(c, t, p) ==
  IF p > Len(t) THEN [ok |-> TRUE, out |-> <<>>]
  ELSE LET m == rx_match(c, t, p)
       IN IF m.grp = "none"
          THEN LET r == sub_from(c, t, p + 1)
               IN [ok |-> r.ok, out |-> <<t[p]>> \o r.out]
          ELSE IF ~sb(c, m).ok THEN [ok |-> FALSE, out |-> <<>>]
          ELSE LET r == sub_from(c, t, p + MatchLen(m))
               IN [ok |-> r.ok, out |-> sb(c, m).out \o r.out]

\* worker(text) = _transliterator(rx, sb, text)
worker(c, t) == sub_from(c, t, 1)

(***************************************************************************)
(* The state machine: _compile at import, then main's loop calling a       *)
(* transliterator on a name; rx.sub scans the name match by match.         *)
(***************************************************************************)

\* є Є й ь ш а ' ’ ʼ - ￼
Alphabet == {1108, 1028, 1081, 1100, 1096, 1072, 39, 8217, 700, 45, 65532}

\* Є Й Ь Ш Ч А
Capitals == {1028, 1049, 1068, 1064, 1063, 1040}

Smalls == {Lower(ch) : ch \in Capitals}

Words(A, n) == UNION {[1..k -> A] : k \in 0..n}

\* 'Київ', 'Єва', 'зг', 'ЗГ', 'Зг', 'зГ'
Names ==
  {<<1050, 1080, 1111, 1074>>, <<1028, 1074, 1072>>, <<1079, 1075>>,
   <<1047, 1043>>, <<1047, 1075>>, <<1079, 1043>>}

\* The names a transliterator is called on: every word up to MaxLen over
\* Alphabet, over Capitals and over Smalls, every letter of the alphabet
\* alone, and a few names.
Inputs ==
  Words(Alphabet, MaxLen) \cup Words(Capitals, MaxLen) \cup Words(Smalls, MaxLen)
    \cup {<<ch>> : ch \in Range(loabc) \cup Range(hiabc)} \cup Names

\* The three transliterators share no state: a behaviour follows the table
\* of one of them from its compilation on.
Init ==
  /\ rules \in Standards
  /\ pc = "compile"
  /\ text = <<>>
  /\ pos = 1
  /\ out = <<>>
  /\ pieces = <<>>

\* dstua = _compile(dstua) etc.: an exception ends the program at import.
Compile ==
  /\ pc = "compile"
  /\ pc' = IF uk_lat[rules].ok THEN "ready" ELSE "failed"
  /\ UNCHANGED <<rules, text, pos, out, pieces>>

\* obj['name-...'] = uk_lat_...(s)
Call ==
  /\ pc = "ready"
  /\ \E t \in Inputs : text' = t
  /\ pos' = 1
  /\ out' = <<>>
  /\ pieces' = <<>>
  /\ pc' = "scan"
  /\ UNCHANGED rules

\* rx.sub finds a match of group g at pos.
Matched(g) ==
  /\ pc = "scan"
  /\ pos <= Len(text)
  /\ rx_match(uk_lat[rules], text, pos).grp = g

\* rx.sub calls sb on the match at pos and appends the replacement; a
\* KeyError in sb ends the call.
Replace ==
  LET c == uk_lat[rules]
      r == sb(c, rx_match(c, text, pos))
  IN /\ IF r.ok
        THEN /\ out' = out \o r.out
             /\ pieces' = pieces \o r.parts
             /\ pos' = pos + MatchLen(rx_match(c, text, pos))
             /\ pc' = "scan"
        ELSE /\ pc' = "raised"
             /\ UNCHANGED <<out, pieces, pos>>
     /\ UNCHANGED <<rules, text>>

\* (?P<g1>^|{inner1})(?P<g2>{inner2}): return x + word_start_rules[k]
SubG2 ==
  /\ Matched("g2")
  /\ Replace

\* (?P<g3>{inner3}): return default_rules[k]
SubG3 ==
  /\ Matched("g3")
  /\ Replace

\* (?P<g4>{inner4}): return default_rules[k[0]] + after_cons_rules[k[1]]
SubG4 ==
  /\ Matched("g4")
  /\ Replace

\* (?P<g5>{inner5}): return default_rules[k]
SubG5 ==
  /\ Matched("g5")
  /\ Replace

\* No alternative matches at pos: rx.sub copies the character.
SubCopy ==
  /\ pc = "scan"
  /\ pos <= Len(text)
  /\ rx_match(uk_lat[rules], text, pos).grp = "none"
  /\ out' = Append(out, text[pos])
  /\ pieces' = Append(pieces, Piece("none", <<text[pos]>>))
  /\ pos' = pos + 1
  /\ UNCHANGED <<rules, pc, text>>

\* rx.sub reaches the end of the text: worker returns out.
SubEnd ==
  /\ pc = "scan"
  /\ pos > Len(text)
  /\ pc' = "done"
  /\ UNCHANGED <<rules, text, pos, out, pieces>>

\* writer.writerow(obj); the loop goes on to the next name.
Return ==
  /\ pc = "done"
  /\ pc' = "ready"
  /\ text' = <<>>
  /\ pos' = 1
  /\ out' = <<>>
  /\ pieces' = <<>>
  /\ UNCHANGED rules

Next ==
  \/ Compile
  \/ Call
  \/ SubG2
  \/ SubG3
  \/ SubG4
  \/ SubG5
  \/ SubCopy
  \/ SubEnd
  \/ Return

Spec == Init /\ [][Next]_vars

\* _compile as a function of its table: the probe tables, then the three
\* tables of the program.
InitCompile ==
  /\ rules \in Probes \cup Standards
  /\ pc = "compile"
  /\ text = <<>>
  /\ pos = 1
  /\ out = <<>>
  /\ pieces = <<>>

NextCompile == Compile

SpecCompile == InitCompile /\ [][NextCompile]_vars


(***************************************************************************)
(* Properties.                                                             *)
(***************************************************************************)

TypeOK ==
  /\ pc \in {"compile", "ready", "failed", "scan", "done", "raised"}
  /\ pos \in 1..(Len(text) + 1)
  /\ Len(pieces) = pos - 1
  /\ pc = "done" => worker(uk_lat[rules], text) = [ok |-> TRUE, out |-> out]
  /\ pc = "raised" => ~worker(uk_lat[rules], text).ok

\* The 33 letters of the Ukrainian alphabet in either case.
UkrLetters == Range(loabc) \cup {Upper(ch) : ch \in Range(loabc)}

\* ' U+0027, ’ U+2019, ʼ U+02BC
ApostropheGlyphs == {39, 8217, 700}

\* The registered consonants in either case.
Consonants == Range(consonants) \cup {Upper(ch) : ch \in Range(consonants)}

Returned == pc = "done"

Ended == pc \in {"done", "raised"}

Std(n) == rules.name = n

\* ---------------------------------------------------------------- C1

\* 'ye' / 'Ye' and 'ie' / 'Ie' for є / Є
YeForm(ch) == IF ch = 1108 THEN <<121, 101>> ELSE <<89, 101>>

IeForm(ch) == IF ch = 1108 THEN <<105, 101>> ELSE <<73, 101>>

\* C1: under Standard K every є or Є that rx.sub has replaced so far got
\* 'ye' / 'Ye' if it starts the string or follows a character that is
\* neither a Ukrainian letter nor an apostrophe glyph, and 'ie' / 'Ie'
\* otherwise; and 'Єва' gives 'Yeva'.
C1_YeAtWordStart ==
  Std("kmu") =>
    /\ \A i \in 1..Len(pieces) :
         text[i] \in {1108, 1028} =>
           pieces[i].out =
             IF i = 1 \/ text[i - 1] \notin (UkrLetters \cup ApostropheGlyphs)
             THEN YeForm(text[i])
             ELSE IeForm(text[i])
    /\ Returned /\ text = <<1028, 1074, 1072>> => out = <<89, 101, 118, 97>>

\* '-єє' has been transliterated to '-yeie' under Standard K.
C1_Witness ==
  /\ Std("kmu")
  /\ Returned
  /\ text = <<45, 1108, 1108>>
  /\ out = <<45, 121, 101, 105, 101>>

\* ---------------------------------------------------------------- C2

\* C2: a call on a text with no Ukrainian letter and no apostrophe glyph
\* does not raise and returns the text unchanged.
C2_IdentityOnDisjoint ==
  (Ended /\ \A i \in 1..Len(text) : text[i] \notin (UkrLetters \cup ApostropheGlyphs))
    => (Returned /\ out = text)

\* ---------------------------------------------------------------- C3

\* The text with every apostrophe glyph replaced by U+0027.
Canon(t) == [i \in 1..Len(t) |-> IF t[i] \in ApostropheGlyphs THEN 39 ELSE t[i]]

\* C3: a call ends as the call on the same text with every apostrophe glyph
\* replaced by U+0027 ends: both raise, or both return the same output.  Two
\* texts that differ only in their apostrophe glyphs have the same Canon.
C3_ApostropheAliases ==
  Ended =>
    LET r == worker(uk_lat[rules], Canon(text))
    IN /\ r.ok = Returned
       /\ Returned => r.out = out

\* 'шʼє' and '’' have been transliterated, the glyphs not being U+0027.
C3_Witness ==
  /\ Returned
  /\ text = <<1096, 700, 1108>>
  /\ Std("kmu")
  /\ out = <<115, 104, 105, 101>>

\* ---------------------------------------------------------------- C4

\* C4 as claimed: an all-upper-case input gives an output with no
\* lower-case letter.
C4_AllUpperOutput ==
  (Returned /\ text # <<>> /\ \A i \in 1..Len(text) : text[i] \in Range(hiabc))
    => \A j \in 1..Len(out) : ~IsLower(out[j])

\* A string in title case: a letter is upper-case exactly when it begins
\* the string or follows a character that is no letter.
TitleCased(s) ==
  \A j \in 1..Len(s) :
    IsCased(s[j]) => (IsUpper(s[j]) <=> (j = 1 \/ ~IsCased(s[j - 1])))

\* C4 amended: on an all-upper-case input every rule that fires emits its
\* output in title case: the first letter, and a letter after an apostrophe,
\* upper-case, every other letter lower-case.
C4_TitleCasedOutput ==
  (\A i \in 1..Len(text) : text[i] \in Range(hiabc))
    => \A i \in 1..Len(pieces) : TitleCased(pieces[i].out)

\* 'ШЧЙ' has been transliterated to "Sh'ChJ" under Standard B.
C4_Witness ==
  /\ Returned
  /\ Std("dstub")
  /\ text = <<1064, 1063, 1049>>
  /\ out = <<83, 104, 39, 67, 104, 74>>

\* ---------------------------------------------------------------- C5

\* The table has a contextual rule with start or cons and without 'other'.
MissingOther(t) ==
  \E i \in 1..Len(t) :
    t[i].isdict /\ t[i].has # {} /\ "other" \notin t[i].has

\* C5: compiling a table with a contextual rule that has no 'other' fails,
\* and a compiled table has a default output for every key with a
\* context-specific output.
C5_MissingOtherFails ==
  /\ (pc # "compile" /\ MissingOther(Table(rules))) => pc = "failed"
  /\ pc = "ready" =>
       (uk_lat[rules].word_start_keyset \cup uk_lat[rules].after_cons_keyset)
         \subseteq DOMAIN uk_lat[rules].default_rules

\* ---------------------------------------------------------------- C6

\* The cursor matcher of the claim, rules (1) to (5), from cursor p on.
RECURSIVE RefFrom(_, _, _)
RefFrom(c, t, p) ==
  IF p > Len(t) THEN <<>>
  ELSE LET multi == {k \in DOMAIN c.default_rules : Len(k) > 1 /\ StartsWith(t, p, k)}
           longest == CHOOSE k \in multi : \A j \in multi : Len(j) <= Len(k)
       IN IF /\ <<t[p]>> \in DOMAIN c.word_start_rules
             /\ (p = 1 \/ t[p - 1] \notin (UkrLetters \cup ApostropheGlyphs))
          THEN c.word_start_rules[<<t[p]>>] \o RefFrom(c, t, p + 1)
          ELSE IF multi # {}
          THEN c.default_rules[longest] \o RefFrom(c, t, p + Len(longest))
          ELSE IF /\ t[p] \in Consonants
                  /\ p < Len(t)
                  /\ <<t[p + 1]>> \in DOMAIN c.after_cons_rules
          THEN c.default_rules[<<t[p]>>] \o c.after_cons_rules[<<t[p + 1]>>]
                 \o RefFrom(c, t, p + 2)
          ELSE IF <<t[p]>> \in DOMAIN c.default_rules
          THEN c.default_rules[<<t[p]>>] \o RefFrom(c, t, p + 1)
          ELSE <<t[p]>> \o RefFrom(c, t, p + 1)

\* C6: every call returns the output of the cursor matcher.
C6_EqualsCursorMatcher ==
  Ended => (Returned /\ out = RefFrom(uk_lat[rules], text, 1))

\* What does hold: a call that returns, returns the cursor matcher's output.
ReturnedEqualsCursorMatcher ==
  Returned => out = RefFrom(uk_lat[rules], text, 1)

\* ---------------------------------------------------------------- C7

IsSoftKey(ch) == ch \in {1081, 1049, 1100, 1068}

\* C7 as claimed: under Standards A and B a й or ь outside a
\* multi-character key gets its cons output exactly when the preceding
\* character is a consonant.
C7_ConsAfterConsonant ==
  (Std("dstua") \/ Std("dstub")) =>
    \A i \in 1..Len(pieces) :
      (IsSoftKey(text[i]) /\ pieces[i].grp # "g3") =>
        pieces[i].out =
          IF i > 1 /\ text[i - 1] \in Consonants
          THEN uk_lat[rules].after_cons_rules[<<text[i]>>]
          ELSE uk_lat[rules].default_rules[<<text[i]>>]

\* C7 amended: ... exactly when the preceding character is a consonant that
\* the preceding match has not consumed, as the last character of a
\* multi-character key or as the after-consonant key of a consonant pair.
C7_ConsAfterFreeConsonant ==
  (Std("dstua") \/ Std("dstub")) =>
    \A i \in 1..Len(pieces) :
      (IsSoftKey(text[i]) /\ pieces[i].grp # "g3") =>
        pieces[i].out =
          IF /\ i > 1
             /\ text[i - 1] \in Consonants
             /\ pieces[i - 1].grp \notin {"g3", "g4v"}
          THEN uk_lat[rules].after_cons_rules[<<text[i]>>]
          ELSE uk_lat[rules].default_rules[<<text[i]>>]

\* 'шйь' has been transliterated to "š'jĵ" under Standard A.
C7_Witness ==
  /\ Returned
  /\ Std("dstua")
  /\ text = <<1096, 1081, 1100>>
  /\ out = <<353, 39, 106, 309>>

\* ---------------------------------------------------------------- C8

\* The outputs the rule e defines, each with the dict _compile registers it in.
Outputs(c, e) ==
  IF e.isdict
  THEN {<<c.word_start_rules, e.start>> : x \in {"start"} \cap e.has}
         \cup {<<c.after_cons_rules, e.cons>> : x \in {"cons"} \cap e.has}
         \cup {<<c.default_rules, e.other>> : x \in {"other"} \cap e.has}
  ELSE {<<c.default_rules, e.val>>}

LetterEntries(t) == {i \in 1..Len(t) : 39 \notin Range(t[i].key)}

\* First character upper-cased, the rest unchanged.
CapFirst(s) == [i \in 1..Len(s) |-> IF i = 1 THEN Upper(s[i]) ELSE s[i]]

\* First character and every character after an apostrophe upper-cased, the
\* rest unchanged.
CapRuns(s) ==
  [i \in 1..Len(s) |-> IF i = 1 \/ s[i - 1] = 39 THEN Upper(s[i]) ELSE s[i]]

\* C8 as claimed: the upper-cased key carries every authored output with its
\* first character upper-cased and the rest unchanged.
C8_UpperKeyCapFirst ==
  pc = "ready" =>
    \A i \in LetterEntries(Table(rules)) :
      \A o \in Outputs(uk_lat[rules], Table(rules)[i]) :
        o[1][upper(Table(rules)[i].key)] = CapFirst(o[2])

\* C8 amended: the upper-cased key carries every authored output in title
\* case: the first character and every character after an apostrophe
\* upper-cased, the rest unchanged.
C8_UpperKeyTitle ==
  pc = "ready" =>
    \A i \in LetterEntries(Table(rules)) :
      \A o \in Outputs(uk_lat[rules], Table(rules)[i]) :
        o[1][upper(Table(rules)[i].key)] = CapRuns(o[2])

\* Standard B is compiled: Й after a consonant is "'J", ШЧ is "Sh'Ch".
C8_Witness ==
  /\ pc = "ready"
  /\ Std("dstub")
  /\ uk_lat[rules].after_cons_rules[<<1049>>] = <<39, 74>>
  /\ uk_lat[rules].default_rules[<<1064, 1063>>] = <<83, 104, 39, 67, 104>>

\* ---------------------------------------------------------------- C9

\* C9: for every separator in the text, with u before it and v after it,
\* whenever the calls on u and on v return, the call on the text returns
\* their outputs joined by the separator.
C9_WordWise ==
  Ended =>
    \A i \in 1..Len(text) :
      text[i] \notin (UkrLetters \cup ApostropheGlyphs) =>
        LET ru == worker(uk_lat[rules], SubSeq(text, 1, i - 1))
            rv == worker(uk_lat[rules], SubSeq(text, i + 1, Len(text)))
        IN (ru.ok /\ rv.ok) => (Returned /\ out = ru.out \o <<text[i]>> \o rv.out)

\* What does hold: the same when the call on the text returns.
ReturnedWordWise ==
  Returned =>
    \A i \in 1..Len(text) :
      text[i] \notin (UkrLetters \cup ApostropheGlyphs) =>
        LET ru == worker(uk_lat[rules], SubSeq(text, 1, i - 1))
            rv == worker(uk_lat[rules], SubSeq(text, i + 1, Len(text)))
        IN ru.ok /\ rv.ok /\ out = ru.out \o <<text[i]>> \o rv.out

\* ---------------------------------------------------------------- C10

NoUkrLetter(s) == \A j \in 1..Len(s) : s[j] \notin UkrLetters

\* C10: the output assembled so far holds no Ukrainian letter and, under
\* Standard K, no apostrophe glyph; once compiled, every letter in either
\* case is a single-character default key and no registered output holds a
\* Ukrainian letter.
C10_NoUkrainianInOutput ==
  /\ NoUkrLetter(out)
  /\ Std("kmu") => \A j \in 1..Len(out) : out[j] \notin ApostropheGlyphs
  /\ pc = "ready" =>
       LET c == uk_lat[rules]
       IN /\ \A ch \in UkrLetters : <<ch>> \in c.default_keyset1
          /\ \A k \in DOMAIN c.default_rules : NoUkrLetter(c.default_rules[k])
          /\ \A k \in DOMAIN c.word_start_rules : NoUkrLetter(c.word_start_rules[k])
          /\ \A k \in DOMAIN c.after_cons_rules : NoUkrLetter(c.after_cons_rules[k])

\* 'Київ' has been transliterated to 'Kyïv' under Standard A.
C10_Witness ==
  /\ Returned
  /\ Std("dstua")
  /\ text = <<1050, 1080, 1111, 1074>>
  /\ out = <<75, 121, 239, 118>>
====
